---- MODULE Spec2Model ----
(***************************************************************************)
(* A model of http-manager (src/src/lib.rs): URL joining, request          *)
(* construction, the timeout-bounded send / body-read of read_bytes, the   *)
(* convenience get_non_tls / post_non_tls dispatch and download_file.      *)
(*                                                                         *)
(* Strings are sequences of one-character strings, so that parsing,        *)
(* lower-casing, prefix tests and serialisation are computed character by  *)
(* character.  An optional value is <<>> (absent) or <<v>> (present).      *)
(* Time is counted in seconds and observed every CONNECT_TIMEOUT seconds,  *)
(* the unit that divides every duration the program names (5 s and 15 s);  *)
(* the timeouts callers pass are multiples of it.                          *)
(***************************************************************************)
EXTENDS Integers, Sequences, FiniteSets, TLC

(***************************************************************************)
(* Characters and string helpers                                           *)
(***************************************************************************)
Alpha == {"a", "b", "e", "f", "g", "h", "p", "s", "t", "x",
          "H", "P", "S", "T", "X"}

Digit == {"0", "1", "2", "3", "4", "5", "6", "7", "8", "9"}

\* ASCII lower-casing, as the URL parser applies it to schemes and hosts.
Lower(c) ==
    CASE c = "H" -> "h"
      [] c = "P" -> "p"
      [] c = "S" -> "s"
      [] c = "T" -> "t"
      [] c = "X" -> "x"
      [] OTHER -> c

LowerSeq(s) == [i \in 1..Len(s) |-> Lower(s[i])]

\* The least index of c in s, or 0.
IndexOf(s, c) ==
    IF \E i \in 1..Len(s) : s[i] = c
    THEN CHOOSE i \in 1..Len(s) : s[i] = c /\ \A j \in 1..(i - 1) : s[j] # c
    ELSE 0

Prefix(s, n) == SubSeq(s, 1, n)

Drop(s, n) == SubSeq(s, n + 1, Len(s))

\* str::starts_with
StartsWith(s, p) == Len(s) >= Len(p) /\ Prefix(s, Len(p)) = p

RECURSIVE StripSlashes(_)
StripSlashes(s) ==
    IF s # <<>> /\ s[1] = "/" THEN StripSlashes(Tail(s)) ELSE s

\* s cut at every "/": one piece more than there are slashes.
RECURSIVE SplitSlash(_)
SplitSlash(s) ==
    LET i == IndexOf(s, "/")
    IN  IF i = 0 THEN <<s>>
        ELSE <<Prefix(s, i - 1)>> \o SplitSlash(Drop(s, i))

DigitVal(c) ==
    CASE c = "0" -> 0 [] c = "1" -> 1 [] c = "2" -> 2 [] c = "3" -> 3
      [] c = "4" -> 4 [] c = "5" -> 5 [] c = "6" -> 6 [] c = "7" -> 7
      [] c = "8" -> 8 [] c = "9" -> 9

DigitChar(n) ==
    CASE n = 0 -> "0" [] n = 1 -> "1" [] n = 2 -> "2" [] n = 3 -> "3"
      [] n = 4 -> "4" [] n = 5 -> "5" [] n = 6 -> "6" [] n = 7 -> "7"
      [] n = 8 -> "8" [] n = 9 -> "9"

RECURSIVE ToNum(_)
ToNum(s) ==
    IF s = <<>> THEN 0
    ELSE 10 * ToNum(Prefix(s, Len(s) - 1)) + DigitVal(s[Len(s)])

RECURSIVE ToDigits(_)
ToDigits(n) ==
    IF n < 10 THEN <<DigitChar(n)>>
    ELSE ToDigits(n \div 10) \o <<DigitChar(n % 10)>>

(***************************************************************************)
(* url::Url, as parsed and joined by Url::parse and Url::join.  The model  *)
(* covers inputs over Alpha, Digit and ":", "/", ".", "#": no userinfo,    *)
(* query, percent-encoding, whitespace or numeric (IPv4) host.             *)
(***************************************************************************)
sHttp == <<"h", "t", "t", "p">>

sHttps == <<"h", "t", "t", "p", "s">>

sFtp == <<"f", "t", "p">>

SpecialSchemes == {sHttp, sHttps, sFtp}

DefaultPort(scheme) ==
    CASE scheme = sHttp -> <<80>>
      [] scheme = sHttps -> <<443>>
      [] scheme = sFtp -> <<21>>
      [] OTHER -> <<>>

PortMax == 65535

SchemeChars == Alpha \cup Digit \cup {"."}

\* Whether s begins with a scheme: a letter, then scheme characters, then ":".
HasScheme(s) ==
    LET i == IndexOf(s, ":")
    IN  /\ i > 1
        /\ s[1] \in Alpha
        /\ \A j \in 2..(i - 1) : s[j] \in SchemeChars

MkUrl(scheme, host, port, path, opaque, fragment) ==
    [scheme |-> scheme, host |-> host, port |-> port, path |-> path,
     opaque |-> opaque, fragment |-> fragment]

ParseOk(u) == [ok |-> TRUE, err |-> "", url |-> <<u>>]

ParseErr(e) == [ok |-> FALSE, err |-> e, url |-> <<>>]

\* Removes the path's last segment, if any.
Shorten(path) ==
    IF path = <<>> THEN <<>> ELSE Prefix(path, Len(path) - 1)

\* The path state: the pieces between slashes are appended to path, ".."
\* removing a segment and "." none; a final ".." or "." leaves an empty segment.
RECURSIVE PathFold(_, _)
PathFold(pieces, path) ==
    IF pieces = <<>> THEN path
    ELSE LET p == Head(pieces)
             last == Len(pieces) = 1
             next == IF p = <<".", ".">>
                     THEN IF last THEN Append(Shorten(path), <<>>)
                          ELSE Shorten(path)
                     ELSE IF p = <<".">>
                     THEN IF last THEN Append(path, <<>>) ELSE path
                     ELSE Append(path, p)
         IN  PathFold(Tail(pieces), next)

PathState(chars, path) == PathFold(SplitSlash(chars), path)

\* The authority and what follows it, for input s placed after the slashes.
ParseAuthority(scheme, s, fragment) ==
    LET special == scheme \in SpecialSchemes
        i == IndexOf(s, "/")
        auth == IF i = 0 THEN s ELSE Prefix(s, i - 1)
        rest == IF i = 0 THEN <<>> ELSE Drop(s, i - 1)
        c == IndexOf(auth, ":")
        rawhost == IF c = 0 THEN auth ELSE Prefix(auth, c - 1)
        portstr == IF c = 0 THEN <<>> ELSE Drop(auth, c)
        host == IF special THEN LowerSeq(rawhost) ELSE rawhost
        portOk == /\ \A j \in 1..Len(portstr) : portstr[j] \in Digit
                  /\ (portstr # <<>> => ToNum(portstr) <= PortMax)
        port == IF portstr = <<>> \/ <<ToNum(portstr)>> = DefaultPort(scheme)
                THEN <<>> ELSE <<ToNum(portstr)>>
        path == IF rest = <<>> /\ ~special THEN <<>>
                ELSE PathState(IF rest = <<>> THEN <<>> ELSE Tail(rest), <<>>)
    IN  IF special /\ rawhost = <<>> THEN ParseErr("EmptyHost")
        ELSE IF ~portOk THEN ParseErr("InvalidPort")
        ELSE ParseOk(MkUrl(scheme, <<host>>, port, path, FALSE, fragment))

\* The relative state: main has no scheme and is resolved against base.
ParseRelative(main, fragment, base) ==
    IF main = <<>>
    THEN ParseOk(MkUrl(base.scheme, base.host, base.port, base.path,
                       FALSE, fragment))
    ELSE IF StartsWith(main, <<"/", "/">>)
    THEN ParseAuthority(base.scheme,
                        IF base.scheme \in SpecialSchemes
                        THEN StripSlashes(main) ELSE Drop(main, 2),
                        fragment)
    ELSE IF main[1] = "/"
    THEN ParseOk(MkUrl(base.scheme, base.host, base.port,
                       PathState(Tail(main), <<>>), FALSE, fragment))
    ELSE ParseOk(MkUrl(base.scheme, base.host, base.port,
                       PathState(main, Shorten(base.path)), FALSE, fragment))

\* The URL parser on input with an optional base (<<>> or <<url>>).
ParseWithBase(input, base) ==
    LET h == IndexOf(input, "#")
        main == IF h = 0 THEN input ELSE Prefix(input, h - 1)
        fragment == IF h = 0 THEN <<>> ELSE <<Drop(input, h)>>
    IN  IF HasScheme(main)
        THEN LET i == IndexOf(main, ":")
                 scheme == LowerSeq(Prefix(main, i - 1))
                 rest == Drop(main, i)
             IN  IF scheme \in SpecialSchemes
                 THEN IF /\ base # <<>>
                         /\ base[1].scheme = scheme
                         /\ ~StartsWith(rest, <<"/", "/">>)
                      THEN ParseRelative(rest, fragment, base[1])
                      ELSE ParseAuthority(scheme, StripSlashes(rest), fragment)
                 ELSE IF StartsWith(rest, <<"/", "/">>)
                 THEN ParseAuthority(scheme, Drop(rest, 2), fragment)
                 ELSE IF StartsWith(rest, <<"/">>)
                 THEN ParseOk(MkUrl(scheme, <<>>, <<>>,
                                    PathState(Tail(rest), <<>>), FALSE, fragment))
                 ELSE ParseOk(MkUrl(scheme, <<>>, <<>>, <<rest>>, TRUE, fragment))
        ELSE IF base = <<>> THEN ParseErr("RelativeUrlWithoutBase")
        ELSE IF base[1].opaque
        THEN IF main = <<>> /\ fragment # <<>>
             THEN ParseOk([base[1] EXCEPT !.fragment = fragment])
             ELSE ParseErr("RelativeUrlWithCannotBeABaseBase")
        ELSE ParseRelative(main, fragment, base[1])

\* Url::parse
UrlParse(input) == ParseWithBase(input, <<>>)

RECURSIVE SerializePath(_)
SerializePath(path) ==
    IF path = <<>> THEN <<>>
    ELSE <<"/">> \o Head(path) \o SerializePath(Tail(path))

\* Url::as_str
Serialize(u) ==
    u.scheme \o <<":">>
    \o (IF u.host = <<>> THEN <<>>
        ELSE <<"/", "/">> \o u.host[1]
             \o (IF u.port = <<>> THEN <<>>
                 ELSE <<":">> \o ToDigits(u.port[1])))
    \o (IF u.opaque THEN u.path[1]
        ELSE (IF u.host = <<>> /\ Len(u.path) > 1 /\ u.path[1] = <<>>
              THEN <<"/", ".">> ELSE <<>>)
             \o SerializePath(u.path))
    \o (IF u.fragment = <<>> THEN <<>> ELSE <<"#">> \o u.fragment[1])

\* A join that appends the path to the base's text.
UrlJoinConcat(base, input) == UrlParse(Serialize(base) \o input)

\* Url::join
UrlJoin(base, input) == ParseWithBase(input, <<base>>)

(***************************************************************************)
(* Inputs                                                                  *)
(***************************************************************************)
\* Callers pass timeouts of 0 .. MaxTimeout clock steps.
MaxTimeout == 3

MaxBody == 2

sSep == <<":", "/", "/">>

sHost == <<"h">>

sPort9850 == <<":", "9", "8", "5", "0">>

sExtX == <<"e", "x", "t", "/", "X">>

sSlashExtX == <<"/">> \o sExtX

sHttpsHX == sHttps \o sSep \o <<"h", "/", "x">>

InSchemes == {sHttp, sHttps, <<"H", "T", "T", "P", "S">>, sHttps \o <<"x">>}

InPorts == {<<>>, sPort9850, <<":", "8", "0">>, <<":", "4", "4", "3">>}

InTails == {<<>>, <<"/">>, <<"/", "a", "/", "b">>,
            <<"/", "a", "/", "b", "#", "f">>}

\* Base URLs given to join_uri: well-formed ones and some that do not parse
\* or parse to a URL that cannot be a base.
BaseUrls ==
    {s \o sSep \o sHost \o p \o t : s \in InSchemes, p \in InPorts, t \in InTails}
    \cup {<<>>, <<"/", "/", "h">>, sExtX, sHttp \o sSep, <<"h">> \o sPort9850,
          sHttp \o sSep \o sHost \o <<":", "9", "9", "9", "9", "9", "9">>}

Paths == {<<>>, sSlashExtX, sExtX, <<".", ".", "/", "x">>, <<".">>, <<"#", "g">>,
          <<"/", "/">>, sHttpsHX}

\* The URLs and paths given to the operations that go to the network.
CallUrls == {s \o sSep \o sHost \o sPort9850 : s \in InSchemes}
            \cup {<<"/", "/", "h">>}

CallPaths == {<<>>, sExtX, sHttpsHX}

DownloadUrls == {sHttp \o sSep \o sHost \o sPort9850 \o <<"/", "a", "/", "b">>,
                 sHttps \o sSep \o sHost, sHttps \o <<"x">> \o sSep \o sHost,
                 <<"/", "/", "h">>}

PostData == {"{}"}

StatusCodes == {200, 204, 404, 500}

\* The bodies a server may serve: <<>>, <<1>>, <<1, 2>>, ...
Bodies == {[i \in 1..n |-> i] : n \in 0..MaxBody}

\* What file_path holds before the call: nothing, or an older file.
OldFiles == {<<>>, << <<9, 9, 9>> >>}

(***************************************************************************)
(* Results                                                                 *)
(***************************************************************************)
NoResult ==
    [kind |-> "none", err |-> "", code |-> <<>>, server_error |-> <<>>,
     bytes |-> <<>>, url |-> <<>>, req |-> <<>>]

Err(e) == [NoResult EXCEPT !.kind = "err", !.err = e]

OkUnit == [NoResult EXCEPT !.kind = "ok"]

OkBytes(b) == [NoResult EXCEPT !.kind = "ok", !.bytes = <<b>>]

OkUrl(u) == [NoResult EXCEPT !.kind = "ok", !.url = <<u>>]

OkReq(r) == [NoResult EXCEPT !.kind = "ok", !.req = <<r>>]

(***************************************************************************)
(* join_uri, create_get, create_json_post                                  *)
(***************************************************************************)
\* The match on uri.join(path).
JoinMatch(j) ==
    IF j.ok THEN OkUrl(j.url[1]) ELSE Err("failed to join parsed URL")

\* join_uri without its test for the empty path.
ParseMatchAlwaysJoin(parsed, p) ==
    IF ~parsed.ok THEN Err("failed to parse client URL")
    ELSE JoinMatch(UrlJoin(parsed.url[1], p))

\* The match on Url::parse(url), then the join of a non-empty path.
ParseMatch(parsed, p) ==
    IF ~parsed.ok THEN Err("failed to parse client URL")
    ELSE IF p # <<>> THEN JoinMatch(UrlJoin(parsed.url[1], p))
    ELSE OkUrl(parsed.url[1])

JoinUri(u, p) == ParseMatch(UrlParse(u), p)

JSON_CONTENT_TYPE == "application/json"

MkRequest(method, uri, content_type, body) ==
    [method |-> method, uri |-> uri, content_type |-> content_type,
     body |-> body]

\* Request::builder() on the joined uri; build_ok: whether it accepts the URI.
BuildRequest(uri, method, content_type, body, build_ok) ==
    IF uri.kind = "err" THEN uri
    ELSE IF ~build_ok THEN Err("failed to create request")
    ELSE OkReq(MkRequest(method, Serialize(uri.url[1]), content_type, body))

CreateGet(u, p, build_ok) ==
    BuildRequest(JoinUri(u, p), "GET", <<>>, "", build_ok)

CreateJsonPost(u, p, d, build_ok) ==
    BuildRequest(JoinUri(u, p), "POST", <<JSON_CONTENT_TYPE>>, d, build_ok)

(***************************************************************************)
(* Status codes, timeouts                                                  *)
(***************************************************************************)
\* A success test that lost its upper bound.
IsSuccessUnbounded(c) == c >= 200

\* StatusCode::is_success
IsSuccess(c) == c >= 200 /\ c < 300

\* StatusCode::is_server_error
IsServerError(c) == c >= 500 /\ c < 600

\* HttpConnector::set_connect_timeout
CONNECT_TIMEOUT == 5

\* ClientBuilder::timeout of the certificate-skipping client
INSECURE_TIMEOUT == 15

\* The timeout get_non_tls and post_non_tls give to read_bytes
NON_TLS_TIMEOUT == 15

\* The timeouts callers pass to read_bytes.
Timeouts == {k * CONNECT_TIMEOUT : k \in 0..MaxTimeout}

\* A call with no timeout is followed for this long.
ClockCap == 2 * CONNECT_TIMEOUT * (MaxTimeout + 1)

\* send_req awaiting the task with no timeout around it.
SendBudgetNone(t) == <<>>

\* The window of timeout(timeout_dur, task) in send_req
SendBudget(t) == <<t>>

\* read_bytes awaiting the body with no timeout around it.
ReadBudgetNone(t) == <<>>

\* The window of timeout(timeout_dur, future_task) in read_bytes
ReadBudget(t) == <<t>>

\* A read_bytes that only logs the unexpected status.
StatusRejectedNever(c, check) == FALSE

\* Whether read_bytes returns the unexpected-status error
StatusRejected(c, check) == ~IsSuccess(c) /\ check

\* A copy from a cursor already at the end of the content.
CopyNothing(content) == <<>>

\* What io::copy writes of content when it succeeds
CopyAll(content) == content

(***************************************************************************)
(* State                                                                   *)
(***************************************************************************)
VARIABLES
    op,                \* the public operation called, "none" before the call
    url,               \* its url / ep argument
    path,              \* its path / url_path argument
    timeout_dur,       \* read_bytes: timeout_dur
    is_https,          \* read_bytes: is_https
    check_status_code, \* read_bytes: check_status_code
    pc,                \* the phase of the call
    exec,              \* "none", "hyper" (read_bytes) or "reqwest"
    transport,         \* "None", "Plain", "Tls" or "InsecureTls"
    joined,            \* the joined URL of get_non_tls / post_non_tls
    req,               \* the request descriptor handed to the client
    sent,              \* how many times the request was written to the network
    elapsed,           \* seconds since the call began
    win,               \* seconds since the current timeout window began
    budget,            \* the current timeout window, <<>> when there is none
    status,            \* the status code of the response received
    served,            \* the body the server sends
    received,          \* how many of its bytes have arrived
    result,            \* what the call returned
    file,              \* the contents of the file at file_path, <<>> when absent
    file0              \* the contents of that file before the call

vars == <<op, url, path, timeout_dur, is_https, check_status_code, pc, exec,
          transport, joined, req, sent, elapsed, win, budget, status, served,
          received, result, file, file0>>

argVars == <<op, url, path, timeout_dur, is_https, check_status_code>>

netVars == <<status, served, received>>

clockVars == <<elapsed, win, budget>>

ActivePhases == {"Connecting", "AwaitingResponse", "ReadingBody"}

TerminalPhases == {"Done", "Failed"}

Init ==
    /\ op = "none"
    /\ url = <<>>
    /\ path = <<>>
    /\ timeout_dur = 0
    /\ is_https = FALSE
    /\ check_status_code = FALSE
    /\ pc = "Idle"
    /\ exec = "none"
    /\ transport = "None"
    /\ joined = <<>>
    /\ req = <<>>
    /\ sent = 0
    /\ elapsed = 0
    /\ win = 0
    /\ budget = <<>>
    /\ status = <<>>
    /\ served = <<>>
    /\ received = 0
    /\ result = NoResult
    /\ file0 = <<>>
    /\ file = <<>>

\* A call that returns r without going to the network.
Returns(r) ==
    /\ result' = r
    /\ pc' = IF r.kind = "err" THEN "Failed" ELSE "Done"

\* A call that fails with message e.
Fails(e) ==
    /\ result' = Err(e)
    /\ pc' = "Failed"

(***************************************************************************)
(* The pure operations                                                     *)
(***************************************************************************)
CallJoinUri(u, p) ==
    /\ op = "none"
    /\ op' = "join_uri"
    /\ url' = u
    /\ path' = p
    /\ Returns(JoinUri(u, p))
    /\ UNCHANGED <<timeout_dur, is_https, check_status_code, exec, transport,
                   joined, req, sent, clockVars, netVars, file, file0>>

CallCreateGet(u, p, build_ok) ==
    /\ op = "none"
    /\ op' = "create_get"
    /\ url' = u
    /\ path' = p
    /\ Returns(CreateGet(u, p, build_ok))
    /\ UNCHANGED <<timeout_dur, is_https, check_status_code, exec, transport,
                   joined, req, sent, clockVars, netVars, file, file0>>

CallCreateJsonPost(u, p, d, build_ok) ==
    /\ op = "none"
    /\ op' = "create_json_post"
    /\ url' = u
    /\ path' = p
    /\ Returns(CreateJsonPost(u, p, d, build_ok))
    /\ UNCHANGED <<timeout_dur, is_https, check_status_code, exec, transport,
                   joined, req, sent, clockVars, netVars, file, file0>>

(***************************************************************************)
(* read_bytes and send_req                                                 *)
(***************************************************************************)
\* send_req: the client is built on the connector is_https selects, and
\* cli.request(r) is raced against the timeout.
EnterSendReq(r, t, h, check) ==
    /\ timeout_dur' = t
    /\ is_https' = h
    /\ check_status_code' = check
    /\ exec' = "hyper"
    /\ transport' = IF h THEN "Tls" ELSE "Plain"
    /\ req' = <<r>>
    /\ budget' = SendBudget(t)
    /\ win' = 0
    /\ pc' = "Connecting"

\* The requests callers hand to read_bytes.
ReadBytesRequests ==
    {CreateGet(sHttp \o sSep \o sHost \o sPort9850, sExtX, TRUE).req[1],
     CreateJsonPost(sHttps \o sSep \o sHost, <<>>, "{}", TRUE).req[1]}

CallReadBytes(r, t, h, check) ==
    /\ op = "none"
    /\ op' = "read_bytes"
    /\ EnterSendReq(r, t, h, check)
    /\ UNCHANGED <<url, path, joined, sent, elapsed, netVars, result, file,
                   file0>>

(***************************************************************************)
(* get_non_tls and post_non_tls                                            *)
(***************************************************************************)
\* The branch both take on the url argument.
UsesInsecureClient(u) == StartsWith(u, sHttps)

\* The certificate-skipping client: danger_accept_invalid_certs(true),
\* timeout(15 s); client_ok: whether ClientBuilder::build succeeds.
EnterInsecure(r, client_ok) ==
    IF client_ok
    THEN /\ exec' = "reqwest"
         /\ transport' = "InsecureTls"
         /\ req' = <<r>>
         /\ budget' = <<INSECURE_TIMEOUT>>
         /\ win' = 0
         /\ pc' = "Connecting"
         /\ UNCHANGED <<timeout_dur, is_https, check_status_code, result>>
    ELSE /\ Fails("failed ClientBuilder build")
         /\ UNCHANGED <<timeout_dur, is_https, check_status_code, exec,
                        transport, req, budget, win>>

\* The body of get_non_tls / post_non_tls after the first join_uri; created is
\* the request of create_get / create_json_post for the plain branch.
Dispatch(u, j, method, ctype, d, created, client_ok) ==
    IF j.kind = "err"
    THEN /\ result' = j
         /\ pc' = "Failed"
         /\ UNCHANGED <<timeout_dur, is_https, check_status_code, exec,
                        transport, joined, req, budget, win>>
    ELSE /\ joined' = j.url
         /\ IF UsesInsecureClient(u)
            THEN EnterInsecure(
                     MkRequest(method, Serialize(j.url[1]), ctype, d),
                     client_ok)
            ELSE IF created.kind = "err"
            THEN /\ result' = created
                 /\ pc' = "Failed"
                 /\ UNCHANGED <<timeout_dur, is_https, check_status_code,
                                exec, transport, req, budget, win>>
            ELSE /\ EnterSendReq(created.req[1], NON_TLS_TIMEOUT,
                                 UsesInsecureClient(u), FALSE)
                 /\ UNCHANGED result

CallGetNonTls(u, p, build_ok, client_ok) ==
    /\ op = "none"
    /\ op' = "get_non_tls"
    /\ url' = u
    /\ path' = p
    /\ Dispatch(u, JoinUri(u, p), "GET", <<>>, "",
                CreateGet(u, p, build_ok), client_ok)
    /\ UNCHANGED <<sent, elapsed, netVars, file, file0>>

CallPostNonTls(u, p, d, build_ok, client_ok) ==
    /\ op = "none"
    /\ op' = "post_non_tls"
    /\ url' = u
    /\ path' = p
    /\ Dispatch(u, JoinUri(u, p), "POST", <<JSON_CONTENT_TYPE>>, d,
                CreateJsonPost(u, p, d, build_ok), client_ok)
    /\ UNCHANGED <<sent, elapsed, netVars, file, file0>>

(***************************************************************************)
(* download_file                                                           *)
(***************************************************************************)
\* reqwest::get(ep): the default client, which has no timeout and sends
\* only to http and https URLs; old is what file_path holds when it is called.
CallDownloadFile(ep, old) ==
    /\ op = "none"
    /\ file0' = old
    /\ file' = old
    /\ op' = "download_file"
    /\ url' = ep
    /\ LET parsed == UrlParse(ep)
           sendable == parsed.ok /\ parsed.url[1].scheme \in {sHttp, sHttps}
       IN  IF sendable
           THEN /\ exec' = "reqwest"
                /\ transport' = IF parsed.url[1].scheme = sHttps
                                THEN "Tls" ELSE "Plain"
                /\ req' = <<MkRequest("GET", Serialize(parsed.url[1]), <<>>, "")>>
                /\ pc' = "Connecting"
                /\ UNCHANGED result
           ELSE /\ Fails("failed reqwest::get")
                /\ UNCHANGED <<exec, transport, req>>
    /\ UNCHANGED <<path, timeout_dur, is_https, check_status_code, joined,
                   sent, clockVars, netVars>>

(***************************************************************************)
(* The network, the clock and the timeouts                                 *)
(***************************************************************************)
\* Time passes while the call waits; neither timeout is yet due.
Tick ==
    /\ pc \in ActivePhases
    /\ elapsed < ClockCap
    /\ budget # <<>> => win < budget[1]
    /\ (exec = "hyper" /\ pc = "Connecting") => win < CONNECT_TIMEOUT
    /\ elapsed' = elapsed + CONNECT_TIMEOUT
    /\ win' = win + CONNECT_TIMEOUT
    /\ UNCHANGED <<argVars, pc, exec, transport, joined, req, sent, budget,
                   netVars, result, file, file0>>

\* The connection is established and the request is written to it.
ConnectOk ==
    /\ pc = "Connecting"
    /\ pc' = "AwaitingResponse"
    /\ sent' = sent + 1
    /\ UNCHANGED <<argVars, exec, transport, joined, req, clockVars, netVars,
                   result, file, file0>>

TransportMessage ==
    CASE op = "download_file" -> "failed reqwest::get"
      [] exec = "reqwest" -> "failed ClientBuilder send"
      [] OTHER -> "failed to fetch response"

\* A failed exchange that is tried again on a new connection.
TransportFailureRetry ==
    /\ pc \in {"Connecting", "AwaitingResponse"}
    /\ pc' = "Connecting"
    /\ UNCHANGED <<argVars, exec, transport, joined, req, sent, clockVars,
                   netVars, result, file, file0>>

\* The connection or the exchange fails (refused, reset, handshake failure).
TransportFailure ==
    /\ pc \in {"Connecting", "AwaitingResponse"}
    /\ Fails(TransportMessage)
    /\ UNCHANGED <<argVars, exec, transport, joined, req, sent, clockVars,
                   netVars, file, file0>>

\* The connector's own connect timeout.
ConnectTimeout ==
    /\ pc = "Connecting"
    /\ exec = "hyper"
    /\ win >= CONNECT_TIMEOUT
    /\ Fails("failed to fetch response: connect timed out")
    /\ UNCHANGED <<argVars, exec, transport, joined, req, sent, clockVars,
                   netVars, file, file0>>

TimeoutMessage ==
    CASE exec = "reqwest" -> "failed ClientBuilder send"
      [] pc = "ReadingBody" -> "failed to read response: deadline has elapsed"
      [] OTHER -> "deadline has elapsed"

\* The current timeout window has run out.
Timeout ==
    /\ pc \in ActivePhases
    /\ budget # <<>>
    /\ win >= budget[1]
    /\ Fails(TimeoutMessage)
    /\ UNCHANGED <<argVars, exec, transport, joined, req, sent, clockVars,
                   netVars, file, file0>>

\* The response head arrives with status c; the server will send body b.
\* read_bytes checks the status and starts a new timeout window for the body;
\* the reqwest paths check nothing and keep their window.
Respond(c, b) ==
    /\ pc = "AwaitingResponse"
    /\ status' = <<c>>
    /\ served' = b
    /\ IF exec = "hyper"
       THEN IF StatusRejected(c, check_status_code)
            THEN /\ result' = [Err("unexpected HTTP response code")
                                   EXCEPT !.code = <<c>>,
                                          !.server_error = <<IsServerError(c)>>]
                 /\ pc' = "Failed"
                 /\ UNCHANGED <<win, budget>>
            ELSE /\ pc' = "ReadingBody"
                 /\ budget' = ReadBudget(timeout_dur)
                 /\ win' = 0
                 /\ UNCHANGED result
       ELSE /\ pc' = "ReadingBody"
            /\ UNCHANGED <<win, budget, result>>
    /\ UNCHANGED <<argVars, exec, transport, joined, req, sent, elapsed,
                   received, file, file0>>

\* One more byte of the body arrives.
BodyChunk ==
    /\ pc = "ReadingBody"
    /\ received < Len(served)
    /\ received' = received + 1
    /\ UNCHANGED <<argVars, pc, exec, transport, joined, req, sent, clockVars,
                   status, served, result, file, file0>>

\* The body has arrived whole: read_bytes, get_non_tls and post_non_tls
\* return it; download_file goes on to write the file.
BodyComplete ==
    /\ pc = "ReadingBody"
    /\ received = Len(served)
    /\ IF op = "download_file"
       THEN pc' = "CreatingFile" /\ UNCHANGED result
       ELSE pc' = "Done" /\ result' = OkBytes(Prefix(served, received))
    /\ UNCHANGED <<argVars, exec, transport, joined, req, sent, clockVars,
                   netVars, file, file0>>

BodyMessage ==
    CASE op = "download_file" -> "failed bytes"
      [] exec = "reqwest" -> "failed ClientBuilder send"
      [] OTHER -> "failed to read response"

\* The body stream reports an error.
BodyError ==
    /\ pc = "ReadingBody"
    /\ Fails(BodyMessage)
    /\ UNCHANGED <<argVars, exec, transport, joined, req, sent, clockVars,
                   netVars, file, file0>>

(***************************************************************************)
(* download_file: the file                                                 *)
(***************************************************************************)
\* File::create: creates the file, or truncates the one that is there.
FileCreate ==
    /\ pc = "CreatingFile"
    /\ file' = << <<>> >>
    /\ pc' = "Copying"
    /\ UNCHANGED <<argVars, exec, transport, joined, req, sent, clockVars,
                   netVars, result, file0>>

FileCreateFails ==
    /\ pc = "CreatingFile"
    /\ Fails("File::create")
    /\ UNCHANGED <<argVars, exec, transport, joined, req, sent, clockVars,
                   netVars, file, file0>>

\* io::copy writes the whole content.
Copy ==
    /\ pc = "Copying"
    /\ file' = <<CopyAll(Prefix(served, received))>>
    /\ result' = OkUnit
    /\ pc' = "Done"
    /\ UNCHANGED <<argVars, exec, transport, joined, req, sent, clockVars,
                   netVars, file0>>

\* io::copy fails after k bytes were written.
CopyFails(k) ==
    /\ pc = "Copying"
    /\ k < received
    /\ file' = <<Prefix(served, k)>>
    /\ Fails("io::copy")
    /\ UNCHANGED <<argVars, exec, transport, joined, req, sent, clockVars,
                   netVars, file0>>

(***************************************************************************)
(* Specifications                                                          *)
(***************************************************************************)
Next ==
    \/ \E u \in BaseUrls, p \in Paths : CallJoinUri(u, p)
    \/ \E u \in CallUrls, p \in CallPaths, ok \in BOOLEAN :
           CallCreateGet(u, p, ok)
    \/ \E u \in CallUrls, p \in CallPaths, d \in PostData, ok \in BOOLEAN :
           CallCreateJsonPost(u, p, d, ok)
    \/ \E r \in ReadBytesRequests, t \in Timeouts, h \in BOOLEAN,
          check \in BOOLEAN : CallReadBytes(r, t, h, check)
    \/ \E u \in CallUrls, p \in CallPaths, ok \in BOOLEAN, cl \in BOOLEAN :
           CallGetNonTls(u, p, ok, cl)
    \/ \E u \in CallUrls, p \in CallPaths, d \in PostData, ok \in BOOLEAN,
          cl \in BOOLEAN : CallPostNonTls(u, p, d, ok, cl)
    \/ \E ep \in DownloadUrls, old \in OldFiles : CallDownloadFile(ep, old)
    \/ Tick
    \/ ConnectOk
    \/ TransportFailure
    \/ ConnectTimeout
    \/ Timeout
    \/ \E c \in StatusCodes, b \in Bodies : Respond(c, b)
    \/ BodyChunk
    \/ BodyComplete
    \/ BodyError
    \/ FileCreate
    \/ FileCreateFails
    \/ Copy
    \/ \E k \in 0..MaxBody : CopyFails(k)

Spec == Init /\ [][Next]_vars

\* The timer and the runtime are live: time passes while a call waits, and a
\* timeout that is due fires.  The peer owes nothing.
LiveSpec ==
    Spec /\ WF_vars(Tick) /\ WF_vars(Timeout) /\ WF_vars(ConnectTimeout)

(***************************************************************************)
(* Properties                                                              *)
(***************************************************************************)
InReadBytes == exec = "hyper"

UnexpectedStatus == "unexpected HTTP response code"

C2_StatusCheck ==
    (InReadBytes /\ status # <<>>) =>
        LET c == status[1]
            non2xx == c < 200 \/ c > 299
        IN  IF non2xx /\ check_status_code
            THEN /\ pc = "Failed"
                 /\ result.kind = "err"
                 /\ result.err = UnexpectedStatus
                 /\ result.code = <<c>>
                 /\ result.server_error = <<(c >= 500 /\ c <= 599)>>
                 /\ result.bytes = <<>>
            ELSE /\ result.err # UnexpectedStatus
                 /\ pc = "Done" =>
                        result.kind = "ok" /\ result.bytes = <<served>>

\* A checked call failed by a 500.
C2_Witness ==
    /\ InReadBytes
    /\ check_status_code
    /\ status = <<500>>
    /\ pc = "Failed"
    /\ result.server_error = <<TRUE>>

\* C3: get_non_tls and post_non_tls send through the certificate-skipping
\* client with its 15 s timeout exactly when the scheme of the joined URL they
\* request is https, and otherwise through read_bytes with is_https false and
\* no status check.
C3_TransportFollowsScheme ==
    (op \in {"get_non_tls", "post_non_tls"} /\ transport # "None") =>
        /\ transport = "InsecureTls" <=> joined[1].scheme = sHttps
        /\ transport = "InsecureTls" => budget = <<INSECURE_TIMEOUT>>
        /\ transport # "InsecureTls" =>
               /\ transport = "Plain"
               /\ ~is_https
               /\ ~check_status_code

\* C4: the base with or without its trailing slash, joined with the path with
\* or without its leading slash, is "http://h:9850/ext/X" in all four cases.
C4_JoinNormalizesSlashes ==
    (/\ op = "join_uri"
     /\ url \in {sHttp \o sSep \o sHost \o sPort9850,
                 sHttp \o sSep \o sHost \o sPort9850 \o <<"/">>}
     /\ path \in {sExtX, sSlashExtX}) =>
        /\ result.kind = "ok"
        /\ Serialize(result.url[1])
               = sHttp \o sSep \o sHost \o sPort9850 \o sSlashExtX

\* The base without trailing slash joined with the path without leading slash.
C4_Witness ==
    /\ op = "join_uri"
    /\ url = sHttp \o sSep \o sHost \o sPort9850
    /\ path = sExtX
    /\ result.kind = "ok"

\* C5: join_uri of a base that parses and the empty path succeeds with the
\* parsed base itself.
C5_EmptyPathReturnsBase ==
    (op = "join_uri" /\ path = <<>> /\ UrlParse(url).ok) =>
        /\ result.kind = "ok"
        /\ result.url = UrlParse(url).url

\* A base with a fragment, which a join with the empty path would have dropped.
C5_Witness ==
    /\ op = "join_uri"
    /\ path = <<>>
    /\ result.kind = "ok"
    /\ result.url[1].fragment # <<>>

\* C6: a call that fails returns no bytes, a call that succeeds returns the
\* whole body (or has written the whole file), and after download_file fails
\* the file is as it was before the call.
C6_NoPartialSuccess ==
    /\ pc = "Failed" => result.kind = "err" /\ result.bytes = <<>>
    /\ (pc = "Done" /\ exec # "none" /\ op # "download_file") =>
           result.bytes = <<served>>
    /\ (pc = "Done" /\ op = "download_file") => file = <<served>>
    /\ (pc = "Failed" /\ op = "download_file") => file = file0

\* C7: the request is written to the network at most once, and never after
\* the call has returned.
C7_SentAtMostOnce ==
    [][/\ sent' <= 1
       /\ sent' >= sent
       /\ pc \in TerminalPhases => sent' = sent]_vars

\* A call that failed after its request was sent.
C7_Witness == pc = "Failed" /\ sent = 1

\* C8: a read_bytes call that is waiting ends; in each phase it fails unless
\* the peer goes on (accepts the connection, answers, sends another byte or
\* the end of the body), and it ends in success only when the peer has
\* answered and delivered the whole body.
C8_ReadBytesTerminates ==
    /\ (InReadBytes /\ pc \in ActivePhases) ~> (pc \in TerminalPhases)
    /\ (InReadBytes /\ pc = "Connecting") ~> (pc = "Failed" \/ sent = 1)
    /\ (InReadBytes /\ pc = "AwaitingResponse") ~>
           (pc = "Failed" \/ status # <<>>)
    /\ \A n \in 0..MaxBody :
           (InReadBytes /\ pc = "ReadingBody" /\ received = n) ~>
               (pc \in TerminalPhases \/ received > n)
    /\ [](InReadBytes /\ pc = "Done" =>
              status # <<>> /\ received = Len(served))

\* A call whose request was sent and never answered, failed by the timeout.
C8_Witness ==
    /\ InReadBytes
    /\ pc = "Failed"
    /\ sent = 1
    /\ status = <<>>
    /\ timeout_dur > 0
    /\ elapsed = timeout_dur
    /\ result.err = "deadline has elapsed"

PhaseEdges ==
    {<<"Idle", "Connecting">>, <<"Connecting", "AwaitingResponse">>,
     <<"AwaitingResponse", "ReadingBody">>, <<"ReadingBody", "Done">>}
    \cup {<<p, "Failed">> :
              p \in {"Idle", "Connecting", "AwaitingResponse", "ReadingBody"}}

\* C9: a read_bytes call changes phase only along Idle, Connecting,
\* AwaitingResponse, ReadingBody, Done, or from one of the first four to
\* Failed; it reads the body only of a response it has received, and with
\* check_status_code only of a 2xx one; once Done or Failed nothing changes.
C9_PhaseOrder ==
    [][InReadBytes' =>
          /\ pc' # pc => <<pc, pc'>> \in PhaseEdges
          /\ pc' = "ReadingBody" => status' # <<>>
          /\ (pc' = "ReadingBody" /\ check_status_code') =>
                 (status'[1] >= 200 /\ status'[1] <= 299)
          /\ pc \in TerminalPhases => UNCHANGED vars]_vars

\* A checked call failed by a 404 without a byte of the body read.
C9_Witness ==
    /\ InReadBytes
    /\ check_status_code
    /\ status = <<404>>
    /\ pc = "Failed"
    /\ received = 0
    /\ sent = 1

\* C10: download_file leaves the file as it was until the whole body has
\* arrived, also when the GET or the body read fails, and on success the
\* file holds the body served, whatever the status.
C10_FileWrittenAfterBody ==
    op = "download_file" =>
        /\ pc \in ActivePhases \cup {"CreatingFile"} => file = file0
        /\ (pc = "Failed"
            /\ result.err \in {"failed reqwest::get", "failed bytes"}) =>
               file = file0
        /\ file # file0 => status # <<>> /\ received = Len(served)
        /\ pc = "Done" => file = <<served>>

\* An older file replaced by the body of a 500 response.
C10_Witness ==
    /\ op = "download_file"
    /\ pc = "Done"
    /\ status = <<500>>
    /\ file0 = << <<9, 9, 9>> >>
    /\ file = << <<1, 2>> >>
====
